---------------------------- MODULE Spec2Model ----------------------------
(***************************************************************************)
(* A model of ftp_lib (src/src/lib.rs): the control-connection client of   *)
(* an FTP session.  Text is modelled byte by byte as a sequence of         *)
(* one-character strings (the model's alphabet is ASCII, so Rust's byte    *)
(* indices and character indices coincide).                                *)
(***************************************************************************)
EXTENDS Integers, Sequences, FiniteSets, TLC

VARIABLES
    session,    \* "none" | "open" | "aborted" | "stuck": the FtpConnection value
    stream,     \* the control stream's unread inbound side: [data, end]
    last,       \* the last call: [op, input, out, log]
    nops,       \* number of calls made so far (bounded by MaxOps)
    reply       \* the FtpResponse handed to parse_pasv_addr (SpecPasv)

vars == <<session, stream, last, nops, reply>>

---------------------------------------------------------------------------
(* Bounds of the model *)

MaxOps == 3
MaxLines == 3

---------------------------------------------------------------------------
(* Characters and text *)

CR == "\r"
LF == "\n"
CRLF == <<CR, LF>>
SP == " "

DigitChars == {"0", "1", "2", "3", "4", "5", "6", "7", "8", "9"}

DigitVal(c) ==
    CASE c = "0" -> 0 [] c = "1" -> 1 [] c = "2" -> 2 [] c = "3" -> 3
      [] c = "4" -> 4 [] c = "5" -> 5 [] c = "6" -> 6 [] c = "7" -> 7
      [] c = "8" -> 8 [] c = "9" -> 9

DigitChar(n) ==
    CASE n = 0 -> "0" [] n = 1 -> "1" [] n = 2 -> "2" [] n = 3 -> "3"
      [] n = 4 -> "4" [] n = 5 -> "5" [] n = 6 -> "6" [] n = 7 -> "7"
      [] n = 8 -> "8" [] n = 9 -> "9"

Front(s) == SubSeq(s, 1, Len(s) - 1)
Last(s) == s[Len(s)]

RECURSIVE DigitsValue(_)
DigitsValue(s) ==
    IF s = <<>> THEN 0 ELSE DigitsValue(Front(s)) * 10 + DigitVal(Last(s))

(* The decimal text of a natural number, as {} formats it. *)
RECURSIVE to_string(_)
to_string(n) ==
    IF n < 10 THEN <<DigitChar(n)>>
    ELSE to_string(n \div 10) \o <<DigitChar(n % 10)>>

(* The three wire digits of a status code. *)
CodeText(c) ==
    <<DigitChar(c \div 100), DigitChar((c \div 10) % 10), DigitChar(c % 10)>>

RECURSIVE Flatten(_)
Flatten(ss) == IF ss = <<>> THEN <<>> ELSE Head(ss) \o Flatten(Tail(ss))

(* Index of the first occurrence of character c in s, 0 when there is none
   (Rust: s.find(c) -> Some(i - 1) | None). *)
RECURSIVE FindFrom(_, _, _)
FindFrom(s, c, i) ==
    IF i > Len(s) THEN 0
    ELSE IF s[i] = c THEN i
    ELSE FindFrom(s, c, i + 1)

find(s, c) == FindFrom(s, c, 1)

(* s.split(c).collect(): the fields between the occurrences of c. *)
RECURSIVE split(_, _)
split(s, c) ==
    LET i == find(s, c) IN
    IF i = 0 THEN <<s>>
    ELSE <<SubSeq(s, 1, i - 1)>> \o split(SubSeq(s, i + 1, Len(s)), c)

(* str::parse::<uN>(): an optional '+', then one or more decimal digits,
   value at most max. *)
parse_u(s, max) ==
    LET body == IF s # <<>> /\ s[1] = "+" THEN Tail(s) ELSE s IN
    IF body = <<>> \/ \E i \in 1..Len(body) : body[i] \notin DigitChars
    THEN [ok |-> FALSE, v |-> 0]
    ELSE IF DigitsValue(body) > max THEN [ok |-> FALSE, v |-> 0]
    ELSE [ok |-> TRUE, v |-> DigitsValue(body)]

U8_MAX == 255
U16_MAX == 65535
(* The largest value of a three-byte decimal text: the status code is parsed
   as u32 from exactly three bytes, which cannot overflow. *)
ThreeByteMax == 999

---------------------------------------------------------------------------
(* Values: FtpResponse, FtpError, the outcome of a call *)

FtpResponse(status, content) == [status |-> status, content |-> content]
NoResponse == FtpResponse(0, <<>>)

(* FtpError: the variant's name, the reply it carries
   (InvalidResponseError) and the command text it carries (SyntaxError,
   SyntaxErrorParameters, CommandUnimplemented). *)
FtpError(name, resp, cmd) == [err |-> name, resp |-> resp, cmd |-> cmd]
PlainError(name) == FtpError(name, NoResponse, <<>>)
InvalidResponseError(resp) == FtpError("InvalidResponseError", resp, <<>>)
InvalidResponseFormatError == PlainError("InvalidResponseFormatError")
ConnectionError == PlainError("ConnectionError")
InvalidTypeError == PlainError("InvalidTypeError")
NoError == PlainError("none")

(* The outcome of a call: Ok(val), Err(error), or no return at all: a panic
   ("Panic"), a loop that never ends ("Hang"), a read that never returns
   ("Block"). *)
Ok(val) == [kind |-> "Ok", val |-> val, error |-> NoError]
Err(e) == [kind |-> "Err", val |-> <<>>, error |-> e]
Panic == [kind |-> "Panic", val |-> <<>>, error |-> NoError]
Hang == [kind |-> "Hang", val |-> <<>>, error |-> NoError]
Block == [kind |-> "Block", val |-> <<>>, error |-> NoError]
Returns(out) == out.kind \in {"Ok", "Err"}

---------------------------------------------------------------------------
(* impl FromStr for FtpResponse *)

from_str(s) ==
    IF Len(s) >= 3
    THEN LET status_code == SubSeq(s, 1, 3) IN
         IF ~(Len(s) >= 4 /\ SubSeq(s, 1, 4) = status_code \o <<SP>>)
         THEN Err(InvalidResponseFormatError)
         ELSE LET status == parse_u(status_code, ThreeByteMax) IN
              IF status.ok THEN Ok(FtpResponse(status.v, s))
              ELSE Err(InvalidResponseFormatError)
    ELSE Err(InvalidResponseFormatError)

---------------------------------------------------------------------------
(* FtpResponse::parse_pasv_addr *)

ENTERING_PASSIVE == 227

(* A socket address: SocketAddrV4::new(Ipv4Addr::new(a, b, c, d), port). *)
SocketAddrV4(octets, port) == [ip |-> octets, port |-> port]

(* (port_data[0] * 256) + port_data[1] in u16 arithmetic.  A result above
   u16::MAX panics in a build with overflow checks (debug) and wraps in a
   build without them (release): overflow_checks says which build runs. *)
port_numberLowByteFirst(port_data, overflow_checks) ==
    [ok |-> TRUE, v |-> (port_data[1] + port_data[2] * 256) % (U16_MAX + 1)]

port_number(port_data, overflow_checks) ==
    LET wide == (port_data[1] * 256) + port_data[2] IN
    IF port_data[1] * 256 > U16_MAX \/ wide > U16_MAX
    THEN IF overflow_checks THEN [ok |-> FALSE, v |-> 0]
         ELSE [ok |-> TRUE,
               v |-> (((port_data[1] * 256) % (U16_MAX + 1)) + port_data[2])
                        % (U16_MAX + 1)]
    ELSE [ok |-> TRUE, v |-> wide]

(* The bytes of the content "within the parentheses": Rust's
   &pasv_raw[find('(').unwrap_or(0) + 1 .. find(')').unwrap_or(0)], with
   0-based bounds lo..hi; the slice panics when lo > hi. *)
pasv_addr_section(pasv_raw) ==
    LET open == find(pasv_raw, "(")
        close == find(pasv_raw, ")")
        lo == (IF open = 0 THEN 0 ELSE open - 1) + 1
        hi == IF close = 0 THEN 0 ELSE close - 1
    IN IF lo > hi THEN [ok |-> FALSE, v |-> <<>>]
       ELSE [ok |-> TRUE, v |-> SubSeq(pasv_raw, lo + 1, hi)]

(* parse_pasv_addr once the six texts are parsed: the `?` on each of them,
   then SocketAddrV4::new. *)
pasv_addr_numbers(self, octets, port_data, overflow_checks) ==
    IF \E i \in 1..4 : ~octets[i].ok THEN Err(InvalidResponseError(self))
    ELSE IF \E i \in 1..2 : ~port_data[i].ok THEN Err(InvalidResponseError(self))
    ELSE IF ~port_number([i \in 1..2 |-> port_data[i].v], overflow_checks).ok
    THEN Panic
    ELSE Ok(SocketAddrV4([i \in 1..4 |-> octets[i].v],
                         port_number([i \in 1..2 |-> port_data[i].v],
                                     overflow_checks).v))

(* parse_pasv_addr once the section is split at the commas. *)
pasv_addr_fields(self, pasv_unparsed, overflow_checks) ==
    IF Len(pasv_unparsed) # 6 THEN Err(InvalidResponseError(self))
    ELSE pasv_addr_numbers(self,
             [i \in 1..4 |-> parse_u(pasv_unparsed[i], U8_MAX)],
             [i \in 1..2 |-> parse_u(pasv_unparsed[4 + i], U16_MAX)],
             overflow_checks)

parse_pasv_addrNoTypeCheck(self, overflow_checks) ==
    IF ~pasv_addr_section(self.content).ok THEN Panic
    ELSE pasv_addr_fields(self, split(pasv_addr_section(self.content).v, ","),
                          overflow_checks)

parse_pasv_addr(self, overflow_checks) ==
    IF self.status # ENTERING_PASSIVE THEN Err(InvalidTypeError)
    ELSE IF ~pasv_addr_section(self.content).ok THEN Panic
    ELSE pasv_addr_fields(self, split(pasv_addr_section(self.content).v, ","),
                          overflow_checks)

---------------------------------------------------------------------------
(* The control stream and the reply decoder *)

(* The unread inbound bytes and what follows them: "open" (the peer is
   connected and silent), "eof" (the peer closed), "err" (the connection
   was reset) or "shut" (quit shut the stream down). *)
Stream(data, end) == [data |-> data, end |-> end]

(* BufRead::read_line: the bytes up to and including the first LF; at the
   end of the data the bytes that are left (possibly none) on "eof" and
   "shut", an error on "err", and no return on "open". *)
read_line_atErrorFirst(st, i) ==
    IF st.end = "err"
    THEN [st |-> "err", line |-> <<>>, rest |-> Stream(<<>>, st.end)]
    ELSE IF i > 0
    THEN [st |-> "ok", line |-> SubSeq(st.data, 1, i),
          rest |-> Stream(SubSeq(st.data, i + 1, Len(st.data)), st.end)]
    ELSE IF st.end \in {"eof", "shut"}
    THEN [st |-> "ok", line |-> st.data, rest |-> Stream(<<>>, st.end)]
    ELSE [st |-> "block", line |-> <<>>, rest |-> st]

read_line_at(st, i) ==
    IF i > 0
    THEN [st |-> "ok", line |-> SubSeq(st.data, 1, i),
          rest |-> Stream(SubSeq(st.data, i + 1, Len(st.data)), st.end)]
    ELSE IF st.end \in {"eof", "shut"}
    THEN [st |-> "ok", line |-> st.data, rest |-> Stream(<<>>, st.end)]
    ELSE IF st.end = "err"
    THEN [st |-> "err", line |-> <<>>, rest |-> Stream(<<>>, st.end)]
    ELSE [st |-> "block", line |-> <<>>, rest |-> st]

read_line(st) == read_line_at(st, find(st.data, LF))

(* The loop of wait_for_response (lib.rs 845-851): response is cleared and
   refilled with the next line until a line of at least 5 bytes starts with
   expected_end.  It never ends once the stream is at its end of file: every
   further read_line returns Ok(0) and leaves response empty. *)
RECURSIVE multiline(_, _, _), multiline_read(_, _)
multiline(response, expected_end, st) ==
    IF Len(response) < 5 \/ SubSeq(response, 1, 4) # expected_end
    THEN multiline_read(expected_end, read_line(st))
    ELSE [out |-> from_str(response), rest |-> st]

(* The body of the loop: r is what read_line returned. *)
multiline_read(expected_end, r) ==
    IF r.st = "err" THEN [out |-> Err(ConnectionError), rest |-> r.rest]
    ELSE IF r.st = "block" THEN [out |-> Block, rest |-> r.rest]
    ELSE IF r.line = <<>> THEN [out |-> Hang, rest |-> r.rest]
    ELSE multiline(r.line, expected_end, r.rest)

(* wait_for_response once its first read_line returned r; &response[0..3]
   panics on a line shorter than 3 bytes. *)
wait_for_response_line(r) ==
    IF r.st = "err" THEN [out |-> Err(ConnectionError), rest |-> r.rest]
    ELSE IF r.st = "block" THEN [out |-> Block, rest |-> r.rest]
    ELSE IF from_str(r.line).kind = "Ok"
    THEN [out |-> from_str(r.line), rest |-> r.rest]
    ELSE IF Len(r.line) < 3 THEN [out |-> Panic, rest |-> r.rest]
    ELSE multiline(r.line, SubSeq(r.line, 1, 3) \o <<SP>>, r.rest)

wait_for_response(st) == wait_for_response_line(read_line(st))

---------------------------------------------------------------------------
(* The reply decoder on bounded streams: SpecDecode *)

NoCall == [op |-> "none", input |-> <<>>, out |-> Ok(<<>>), log |-> <<>>]

(* Physical lines, without their delimiter, that a peer may put on the
   stream: well-formed single-line replies, openers of multi-line replies,
   body lines, and lines that are no reply at all. *)
DecodeLines ==
    { CodeText(220) \o <<SP, "a">>,
      CodeText(220) \o <<"-", "a">>,
      CodeText(550) \o <<SP, "a">>,
      <<SP, "a">>,
      <<"a", "b", "c", SP, "a">>,
      <<"+", "1", "2", SP, "a">>,
      CodeText(220),
      <<"2", "2">>,
      <<>> }

RECURSIVE SeqsUpTo(_, _)
SeqsUpTo(S, n) ==
    IF n = 0 THEN {<<>>}
    ELSE LET shorter == SeqsUpTo(S, n - 1) IN
         shorter \cup {<<x>> \o t : x \in S, t \in {u \in shorter : Len(u) = n - 1}}

(* The streams of at most MaxLines lines; every line ends with CRLF except,
   possibly, the last one (the peer stopped in the middle of a line). *)
DecodeStreams ==
    { Stream(Flatten([i \in 1..Len(ls) |->
                        IF i = Len(ls) /\ ~term THEN ls[i] ELSE ls[i] \o CRLF]),
             end) :
        ls \in SeqsUpTo(DecodeLines, MaxLines) \ {<<>>},
        term \in BOOLEAN, end \in {"eof", "err"} }

AfterOutcome(out) ==
    IF out.kind = "Panic" THEN "aborted"
    ELSE IF out.kind \in {"Hang", "Block"} THEN "stuck"
    ELSE "open"

InitDecode ==
    /\ session = "open"
    /\ stream \in DecodeStreams
    /\ last = NoCall
    /\ nops = 0
    /\ reply = NoResponse

(* wait_for_response returned r (or did not return). *)
Decoded(r) ==
    /\ last' = [op |-> "wait_for_response", input |-> stream,
                out |-> r.out, log |-> <<>>]
    /\ stream' = r.rest
    /\ session' = AfterOutcome(r.out)

(* One call of wait_for_response on the stream. *)
Decode ==
    /\ session = "open"
    /\ Decoded(wait_for_response(stream))
    /\ UNCHANGED <<nops, reply>>

NextDecode == Decode

SpecDecode == InitDecode /\ [][NextDecode]_vars

---------------------------------------------------------------------------
(* parse_pasv_addr on bounded replies: SpecPasv *)

MaxFields == 7

Join(fields) ==
    Flatten([i \in 1..Len(fields) |->
                IF i = 1 THEN fields[i] ELSE <<",">> \o fields[i]])

(* The texts tried in each of the six positions of the payload, and in the
   positions after them. *)
FieldTexts(i) ==
    CASE i = 1 -> {to_string(127), to_string(10), to_string(256), <<"x">>}
      [] i = 2 -> {to_string(0), <<"+", "5">>}
      [] i = 3 -> {to_string(0)}
      [] i = 4 -> {to_string(1), to_string(255), <<>>}
      [] i = 5 -> {to_string(250), to_string(0), to_string(256), <<"x">>}
      [] i = 6 -> {to_string(29), to_string(255), to_string(65535)}
      [] OTHER -> {to_string(7)}

RECURSIVE FieldListsOf(_)
FieldListsOf(n) ==
    IF n = 0 THEN {<<>>}
    ELSE {Append(f, t) : f \in FieldListsOf(n - 1), t \in FieldTexts(n)}

FieldLists == UNION {FieldListsOf(n) : n \in 5..MaxFields}

(* What precedes the field list in the content. *)
PasvPrefixes ==
    { CodeText(227) \o <<SP, "E", SP>>,
      CodeText(227) \o <<SP, "E", ")", SP>>,
      CodeText(227) \o <<SP, "(", "x", ")", SP>> }

PasvContents ==
    { pre \o open \o Join(f) \o close \o post :
        pre \in PasvPrefixes, open \in {<<"(">>, <<>>}, f \in FieldLists,
        close \in {<<")">>, <<>>}, post \in {<<>>, <<".">>} }

PasvReplies ==
    { FtpResponse(st, c) : st \in {ENTERING_PASSIVE, 200}, c \in PasvContents }

InitPasv ==
    /\ session = "none"
    /\ stream = Stream(<<>>, "open")
    /\ last = NoCall
    /\ nops = 0
    /\ reply \in PasvReplies

(* One call of reply.parse_pasv_addr(), in either build. *)
ParsePasv ==
    /\ last.op = "none"
    /\ \E overflow_checks \in BOOLEAN :
          last' = [op |-> "parse_pasv_addr", input |-> reply,
                   out |-> parse_pasv_addr(reply, overflow_checks), log |-> <<>>]
    /\ UNCHANGED <<session, stream, nops, reply>>

NextPasv == ParsePasv

SpecPasv == InitPasv /\ [][NextPasv]_vars

---------------------------------------------------------------------------
(* Status codes (status.rs) *)

COMMAND_OKAY == 200
SYNTAX_ERROR == 500
SYNTAX_ERROR_ARGUMENTS == 501
COMMAND_NOT_IMPLEMENTED_UNNECESARY == 202
COMMAND_NOT_IMPLEMENTED == 502
BAD_COMMAND_SEQUENCE == 503
READY_IN == 120
SERVICE_READY == 220
SERVICE_NOT_AVAILABLE == 421
DATA_TRANSFER_STARTING == 125
DATA_CLOSING == 226
LOGGED_IN == 230
NOT_LOGGED_IN == 530
PASSWORD_NEEDED == 331
ACCOUNT_REQUIRED_LOGIN == 332
ACCOUNT_REQUIRED_STORING == 532
FILE_OPENING_DATA == 150
FILE_ACTION_COMPLETE == 250
DIRECTORY_CREATED == 257
FILE_NEED_INFORMATION == 350
FILE_ACTION_NOT_TAKEN == 450
ACTION_NOT_TAKEN == 550
FILE_NAME_INVALID == 553

---------------------------------------------------------------------------
(* Errors that carry the command text *)

SyntaxError(command) == FtpError("SyntaxError", NoResponse, command)
SyntaxErrorParameters(command) ==
    FtpError("SyntaxErrorParameters", NoResponse, command)
CommandUnimplemented(command) ==
    FtpError("CommandUnimplemented", NoResponse, command)

---------------------------------------------------------------------------
(* Command lines: format!("VERB {}\r\n", argument) *)

VerbText(verb) ==
    CASE verb = "USER" -> <<"U", "S", "E", "R">>
      [] verb = "PASS" -> <<"P", "A", "S", "S">>
      [] verb = "QUIT" -> <<"Q", "U", "I", "T">>
      [] verb = "CWD" -> <<"C", "W", "D">>
      [] verb = "CDUP" -> <<"C", "D", "U", "P">>
      [] verb = "PWD" -> <<"P", "W", "D">>
      [] verb = "LIST" -> <<"L", "I", "S", "T">>
      [] verb = "MKD" -> <<"M", "K", "D">>
      [] verb = "RMD" -> <<"R", "M", "D">>
      [] verb = "RETR" -> <<"R", "E", "T", "R">>
      [] verb = "STOR" -> <<"S", "T", "O", "R">>
      [] verb = "DELE" -> <<"D", "E", "L", "E">>
      [] verb = "RNFR" -> <<"R", "N", "F", "R">>
      [] verb = "RNTO" -> <<"R", "N", "T", "O">>
      [] verb = "PASV" -> <<"P", "A", "S", "V">>

CommandArg(verb, argument) == VerbText(verb) \o <<SP>> \o argument \o CRLF
Command(verb) == VerbText(verb) \o CRLF

---------------------------------------------------------------------------
(* A call in progress: the stream, the events so far, the reply read last,
   the passive endpoint, the bytes of the data connection, and, once the
   call is over (done), its outcome. *)

NoAddr == SocketAddrV4(<<0, 0, 0, 0>>, 0)

Event(ev, text, resp, addr) ==
    [ev |-> ev, text |-> text, resp |-> resp, addr |-> addr]

Start(st) ==
    [st |-> st, log |-> <<>>, done |-> FALSE, out |-> Ok(<<>>),
     resp |-> NoResponse, addr |-> NoAddr, data |-> <<>>]

Finish(x, out) == [x EXCEPT !.done = TRUE, !.out = out]

Logged(x, e) == [x EXCEPT !.log = Append(@, e)]

(* The server, while connected, receives the command and puts its answer
   on the stream. *)
answered(x, answer) ==
    IF x.st.end = "open"
    THEN [Logged(x, Event("answer", answer, NoResponse, NoAddr))
            EXCEPT !.st = Stream(x.st.data \o answer, x.st.end)]
    ELSE x

(* write_command: write_all on the control stream.  It fails on a stream
   that was reset or shut down. *)
write_command(x, command, answer) ==
    IF x.done THEN x
    ELSE IF x.st.end \in {"err", "shut"}
    THEN Finish(Logged(x, Event("write_failed", command, NoResponse, NoAddr)),
                Err(ConnectionError))
    ELSE answered(Logged(x, Event("write", command, NoResponse, NoAddr)), answer)

(* let res = self.wait_for_response()?; r is what wait_for_response
   returned. *)
wait_returned(x, r) ==
    IF r.out.kind = "Ok"
    THEN [Logged(x, Event("read", <<>>, r.out.val, NoAddr))
            EXCEPT !.st = r.rest, !.resp = r.out.val]
    ELSE Finish([Logged(x, Event("read_failed", <<>>, NoResponse, NoAddr))
                   EXCEPT !.st = r.rest], r.out)

wait(x) == IF x.done THEN x ELSE wait_returned(x, wait_for_response(x.st))

(* write_command(command)?; let res = self.wait_for_response()?; *)
exchangeRetries(x, command, answer) ==
    IF x.done THEN x
    ELSE IF wait(write_command(x, command, answer)).done
    THEN wait(write_command(
                 [wait(write_command(x, command, answer)) EXCEPT !.done = FALSE],
                 command, answer))
    ELSE wait(write_command(x, command, answer))

exchange(x, command, answer) == wait(write_command(x, command, answer))

(* match res.status { code => (), _ => return Err(InvalidResponseError(res)) } *)
expectAnything(x, code) == x

expect(x, code) ==
    IF x.done THEN x
    ELSE IF x.resp.status = code THEN x
    ELSE Finish(x, Err(InvalidResponseError(x.resp)))

(* The end of a call: its result, unless it is over already. *)
finish_with(x, result) == IF x.done THEN x ELSE Finish(x, result)

---------------------------------------------------------------------------
(* The matches on the last reply that end a call; x is the call in
   progress, x.resp the reply. *)

connect_resultReadyInAccepted(x) ==
    finish_with(x, IF x.resp.status \in {SERVICE_READY, READY_IN} THEN Ok(<<>>)
                   ELSE Err(InvalidResponseError(x.resp)))

connect_result(x) ==
    finish_with(x, IF x.resp.status = SERVICE_READY THEN Ok(<<>>)
                   ELSE Err(InvalidResponseError(x.resp)))

login_pass_resultSuperfluousIsOk(x, command) ==
    finish_with(x,
        IF x.resp.status \in {LOGGED_IN, COMMAND_NOT_IMPLEMENTED_UNNECESARY}
        THEN Ok(<<>>)
        ELSE Err(InvalidResponseError(x.resp)))

login_pass_result(x, command) ==
    finish_with(x,
        CASE x.resp.status = LOGGED_IN -> Ok(<<>>)
          [] x.resp.status = COMMAND_NOT_IMPLEMENTED_UNNECESARY ->
                Err(CommandUnimplemented(command))
          [] x.resp.status = NOT_LOGGED_IN ->
                Err(PlainError("InvalidCredentialsError"))
          [] x.resp.status = SYNTAX_ERROR -> Err(SyntaxError(command))
          [] x.resp.status = SYNTAX_ERROR_ARGUMENTS ->
                Err(SyntaxErrorParameters(command))
          [] x.resp.status = BAD_COMMAND_SEQUENCE ->
                Err(PlainError("BadCommandSequence"))
          [] x.resp.status = SERVICE_NOT_AVAILABLE ->
                Err(PlainError("ServiceUnavailable"))
          [] x.resp.status = ACCOUNT_REQUIRED_LOGIN ->
                Err(PlainError("AccountRequired"))
          [] OTHER -> Err(InvalidResponseError(x.resp)))

(* The arms of login's outer match other than PASSWORD_NEEDED. *)
login_user_resultNotLoggedInIsOk(user_result, command) ==
    CASE user_result.status \in {LOGGED_IN, NOT_LOGGED_IN} -> Ok(<<>>)
      [] user_result.status = ACCOUNT_REQUIRED_LOGIN ->
            Err(PlainError("AccountRequired"))
      [] user_result.status = SYNTAX_ERROR -> Err(SyntaxError(command))
      [] user_result.status = SYNTAX_ERROR_ARGUMENTS ->
            Err(SyntaxErrorParameters(command))
      [] user_result.status = SERVICE_NOT_AVAILABLE ->
            Err(PlainError("ServiceUnavailable"))
      [] OTHER -> Err(InvalidResponseError(user_result))

login_user_result(user_result, command) ==
    CASE user_result.status = LOGGED_IN -> Ok(<<>>)
      [] user_result.status = NOT_LOGGED_IN -> Err(PlainError("NotLoggedIn"))
      [] user_result.status = ACCOUNT_REQUIRED_LOGIN ->
            Err(PlainError("AccountRequired"))
      [] user_result.status = SYNTAX_ERROR -> Err(SyntaxError(command))
      [] user_result.status = SYNTAX_ERROR_ARGUMENTS ->
            Err(SyntaxErrorParameters(command))
      [] user_result.status = SERVICE_NOT_AVAILABLE ->
            Err(PlainError("ServiceUnavailable"))
      [] OTHER -> Err(InvalidResponseError(user_result))

(* The arms shared by cd, cdup, pwd, mkdir, rmdir after the success arm. *)
common_failureUnknownIsUnavailable(res, command, unavailable) ==
    CASE res.status = ACTION_NOT_TAKEN -> Err(PlainError(unavailable))
      [] res.status = SYNTAX_ERROR -> Err(SyntaxError(command))
      [] res.status = SYNTAX_ERROR_ARGUMENTS -> Err(SyntaxErrorParameters(command))
      [] res.status = COMMAND_NOT_IMPLEMENTED -> Err(CommandUnimplemented(command))
      [] res.status = SERVICE_NOT_AVAILABLE -> Err(PlainError("ServiceUnavailable"))
      [] res.status = NOT_LOGGED_IN -> Err(PlainError("NotLoggedIn"))
      [] OTHER -> Err(PlainError(unavailable))

common_failure(res, command, unavailable) ==
    CASE res.status = ACTION_NOT_TAKEN -> Err(PlainError(unavailable))
      [] res.status = SYNTAX_ERROR -> Err(SyntaxError(command))
      [] res.status = SYNTAX_ERROR_ARGUMENTS -> Err(SyntaxErrorParameters(command))
      [] res.status = COMMAND_NOT_IMPLEMENTED -> Err(CommandUnimplemented(command))
      [] res.status = SERVICE_NOT_AVAILABLE -> Err(PlainError("ServiceUnavailable"))
      [] res.status = NOT_LOGGED_IN -> Err(PlainError("NotLoggedIn"))
      [] OTHER -> Err(InvalidResponseError(res))

cd_result(x, command) ==
    finish_with(x, IF x.resp.status = FILE_ACTION_COMPLETE THEN Ok(<<>>)
                   ELSE common_failure(x.resp, command, "NoPermission"))

cdup_result(x, command) ==
    finish_with(x, IF x.resp.status = FILE_ACTION_COMPLETE THEN Ok(<<>>)
                   ELSE common_failure(x.resp, command, "NoPermission"))

pwd_resultFieldBeforeQuote(x, command) ==
    finish_with(x,
        IF x.resp.status = DIRECTORY_CREATED
        THEN IF Len(split(x.resp.content, "\"")) < 2
             THEN Err(InvalidResponseFormatError)
             ELSE Ok(split(x.resp.content, "\"")[1])
        ELSE common_failure(x.resp, command, "NoPermission"))

pwd_result(x, command) ==
    finish_with(x,
        IF x.resp.status = DIRECTORY_CREATED
        THEN IF Len(split(x.resp.content, "\"")) < 2
             THEN Err(InvalidResponseFormatError)
             ELSE Ok(split(x.resp.content, "\"")[2])
        ELSE common_failure(x.resp, command, "NoPermission"))

mkdir_resultExpectsActionComplete(x, command) ==
    finish_with(x, IF x.resp.status = FILE_ACTION_COMPLETE THEN Ok(<<>>)
                   ELSE common_failure(x.resp, command, "NoPermission"))

mkdir_result(x, command) ==
    finish_with(x, IF x.resp.status = DIRECTORY_CREATED THEN Ok(<<>>)
                   ELSE common_failure(x.resp, command, "NoPermission"))

rmdir_result(x, command) ==
    finish_with(x, IF x.resp.status = FILE_ACTION_COMPLETE THEN Ok(<<>>)
                   ELSE common_failure(x.resp, command, "NoPermission"))

rm_resultOnlyActionComplete(x, command) ==
    finish_with(x,
        IF x.resp.status = FILE_ACTION_COMPLETE THEN Ok(<<>>)
        ELSE IF x.resp.status = FILE_ACTION_NOT_TAKEN
        THEN Err(PlainError("FileUnavailable"))
        ELSE common_failure(x.resp, command, "FileUnavailable"))

rm_result(x, command) ==
    finish_with(x,
        IF x.resp.status \in {COMMAND_OKAY, FILE_ACTION_COMPLETE} THEN Ok(<<>>)
        ELSE IF x.resp.status = FILE_ACTION_NOT_TAKEN
        THEN Err(PlainError("FileUnavailable"))
        ELSE common_failure(x.resp, command, "FileUnavailable"))

(* rename goes on to RNTO on these replies to RNFR. *)
rnfr_acceptedAlsoNotTaken(status) ==
    status \in {FILE_ACTION_COMPLETE, FILE_NEED_INFORMATION, ACTION_NOT_TAKEN}

rnfr_accepted(status) ==
    status \in {FILE_ACTION_COMPLETE, FILE_NEED_INFORMATION}

rnfr_failure(rnfr_result, command) ==
    IF rnfr_result.status = FILE_ACTION_NOT_TAKEN
    THEN Err(PlainError("FileUnavailable"))
    ELSE common_failure(rnfr_result, command, "FileUnavailable")

rnto_resultInvalidNameUnnamed(x, command) ==
    finish_with(x,
        CASE x.resp.status = FILE_ACTION_COMPLETE -> Ok(<<>>)
          [] x.resp.status = ACCOUNT_REQUIRED_STORING ->
                Err(PlainError("AccountRequired"))
          [] x.resp.status = SYNTAX_ERROR -> Err(SyntaxError(command))
          [] x.resp.status = SYNTAX_ERROR_ARGUMENTS ->
                Err(SyntaxErrorParameters(command))
          [] x.resp.status = COMMAND_NOT_IMPLEMENTED ->
                Err(CommandUnimplemented(command))
          [] x.resp.status = BAD_COMMAND_SEQUENCE ->
                Err(PlainError("BadCommandSequence"))
          [] x.resp.status = SERVICE_NOT_AVAILABLE ->
                Err(PlainError("ServiceUnavailable"))
          [] x.resp.status = NOT_LOGGED_IN -> Err(PlainError("NotLoggedIn"))
          [] OTHER -> Err(InvalidResponseError(x.resp)))

rnto_result(x, command) ==
    finish_with(x,
        CASE x.resp.status = FILE_ACTION_COMPLETE -> Ok(<<>>)
          [] x.resp.status = ACCOUNT_REQUIRED_STORING ->
                Err(PlainError("AccountRequired"))
          [] x.resp.status = FILE_NAME_INVALID -> Err(PlainError("InvalidFileName"))
          [] x.resp.status = SYNTAX_ERROR -> Err(SyntaxError(command))
          [] x.resp.status = SYNTAX_ERROR_ARGUMENTS ->
                Err(SyntaxErrorParameters(command))
          [] x.resp.status = COMMAND_NOT_IMPLEMENTED ->
                Err(CommandUnimplemented(command))
          [] x.resp.status = BAD_COMMAND_SEQUENCE ->
                Err(PlainError("BadCommandSequence"))
          [] x.resp.status = SERVICE_NOT_AVAILABLE ->
                Err(PlainError("ServiceUnavailable"))
          [] x.resp.status = NOT_LOGGED_IN -> Err(PlainError("NotLoggedIn"))
          [] OTHER -> Err(InvalidResponseError(x.resp)))

pasv_result(pasv_res, command, overflow_checks) ==
    CASE pasv_res.status = ENTERING_PASSIVE ->
            parse_pasv_addr(pasv_res, overflow_checks)
      [] pasv_res.status = SYNTAX_ERROR -> Err(SyntaxError(command))
      [] pasv_res.status = SYNTAX_ERROR_ARGUMENTS ->
            Err(SyntaxErrorParameters(command))
      [] pasv_res.status = COMMAND_NOT_IMPLEMENTED ->
            Err(CommandUnimplemented(command))
      [] pasv_res.status = SERVICE_NOT_AVAILABLE ->
            Err(PlainError("ServiceUnavailable"))
      [] pasv_res.status = NOT_LOGGED_IN -> Err(PlainError("NotLoggedIn"))
      [] OTHER -> Err(InvalidResponseError(pasv_res))

---------------------------------------------------------------------------
(* The private steps of the data-bearing operations *)

DatastreamConnectionError == PlainError("DatastreamConnectionError")

(* pasv() once the reply to PASV is read: Ok(endpoint) goes on, anything
   else ends the call. *)
pasv_replyGoesOn(x, overflow_checks) == x

pasv_reply(x, overflow_checks) ==
    IF x.done THEN x
    ELSE IF pasv_result(x.resp, Command("PASV"), overflow_checks).kind = "Ok"
    THEN [x EXCEPT !.addr =
             pasv_result(x.resp, Command("PASV"), overflow_checks).val]
    ELSE Finish(x, pasv_result(x.resp, Command("PASV"), overflow_checks))

(* pasv(): PASV, its reply, the endpoint parsed from it. *)
pasv(x, answer, overflow_checks) ==
    pasv_reply(exchange(x, Command("PASV"), answer), overflow_checks)

(* The data connection was opened and is closed again. *)
datastream_usedLeftOpen(x) ==
    Logged(x, Event("data_open", <<>>, NoResponse, x.addr))

datastream_used(x) ==
    Logged(Logged(x, Event("data_open", <<>>, NoResponse, x.addr)),
           Event("data_close", <<>>, NoResponse, x.addr))

(* connect_datastream(): connect to the endpoint, read to the end, shut the
   connection down.  The TcpStream is dropped, hence closed, on every way
   out once it was opened. *)
connect_datastream(x, transfer, bytes) ==
    IF x.done THEN x
    ELSE IF transfer = "connect_failed"
    THEN Finish(x, Err(DatastreamConnectionError))
    ELSE IF transfer \in {"transfer_failed", "shutdown_failed"}
    THEN Finish(datastream_used(x), Err(DatastreamConnectionError))
    ELSE [datastream_used(x) EXCEPT !.data = bytes]

(* The data connection of write_file (lib.rs 626-637, 651-653). *)
store_datastream(x, transfer) ==
    IF x.done THEN x
    ELSE IF transfer = "connect_failed" THEN Finish(x, Err(ConnectionError))
    ELSE IF transfer = "transfer_failed"
    THEN Finish(datastream_used(x), Err(ConnectionError))
    ELSE IF transfer = "shutdown_failed"
    THEN Finish(datastream_used(x), Err(DatastreamConnectionError))
    ELSE datastream_used(x)

Transfers == {"ok", "connect_failed", "transfer_failed", "shutdown_failed"}

---------------------------------------------------------------------------
(* The operations, after the server's answers are chosen *)

connect(greeting) == connect_result(wait(Start(Stream(greeting, "open"))))

(* login up to the reply to USER; login_pass is the PASSWORD_NEEDED arm. *)
login_user(st, username, answer) ==
    exchange(Start(st), CommandArg("USER", username), answer)

login_pass(x, password, answer) ==
    login_pass_result(exchange(x, CommandArg("PASS", password), answer),
        CommandArg("PASS", password))

(* quit once QUIT is written: the stream is shut down. *)
quit_written(x, shutdown_ok) ==
    IF x.done THEN x
    ELSE Finish([x EXCEPT !.st = Stream(<<>>, "shut")],
                IF shutdown_ok THEN Ok(<<>>) ELSE Err(ConnectionError))

quit(st, shutdown_ok) ==
    quit_written(write_command(Start(st), Command("QUIT"), <<>>), shutdown_ok)

cd(st, path, answer) ==
    cd_result(exchange(Start(st), CommandArg("CWD", path), answer),
        CommandArg("CWD", path))

cdup(st, answer) ==
    cdup_result(exchange(Start(st), Command("CDUP"), answer),
        Command("CDUP"))

pwd(st, answer) ==
    pwd_result(exchange(Start(st), Command("PWD"), answer),
        Command("PWD"))

mkdir(st, dir_name, answer) ==
    mkdir_result(exchange(Start(st), CommandArg("MKD", dir_name), answer),
        CommandArg("MKD", dir_name))

rmdir(st, directory, answer) ==
    rmdir_result(exchange(Start(st), CommandArg("RMD", directory), answer),
        CommandArg("RMD", directory))

rm(st, file, answer) ==
    rm_result(exchange(Start(st), CommandArg("DELE", file), answer),
        CommandArg("DELE", file))

(* rename up to the reply to RNFR; rename_to is the arm that sends RNTO. *)
rename_from(st, src, answer) ==
    exchange(Start(st), CommandArg("RNFR", src), answer)

rename_toCarriesRnfr(x, dst, answer) ==
    rnto_result(exchange(x, CommandArg("RNTO", dst), answer),
        CommandArg("RNFR", dst))

rename_to(x, dst, answer) ==
    rnto_result(exchange(x, CommandArg("RNTO", dst), answer),
        CommandArg("RNTO", dst))

(* The two confirming replies of a transfer: each is read and matched
   against the one status the code accepts. *)
confirm(x, first, second) == expect(wait(expect(wait(x), first)), second)

(* Ok(file_data), the bytes read from the data connection. *)
transfer_read(x) == finish_with(x, Ok(x.data))

(* list, after pasv(). *)
list(x, answer, transfer, bytes) ==
    transfer_read(
        confirm(connect_datastream(write_command(x, Command("LIST"), answer),
                                   transfer, bytes),
                FILE_OPENING_DATA, DATA_CLOSING))

(* fetch_file, after pasv(). *)
fetch_file(x, file_name, answer, transfer, bytes) ==
    transfer_read(
        confirm(connect_datastream(
                    write_command(x, CommandArg("RETR", file_name), answer),
                    transfer, bytes),
                FILE_OPENING_DATA, DATA_CLOSING))

(* write_file, after pasv(); the two statuses are literals in the code. *)
write_file(x, file_name, answer, transfer) ==
    finish_with(
        confirm(store_datastream(
                    write_command(x, CommandArg("STOR", file_name), answer),
                    transfer),
                150, 226),
        Ok(<<>>))

---------------------------------------------------------------------------
(* The server: the answers it may give to each command *)

ReplyLine(code, text) == CodeText(code) \o <<SP>> \o text \o CRLF
Say(code) == ReplyLine(code, <<"a">>)

(* A code that status.rs does not list. *)
UnlistedCodes == {299}

(* The replies RFC 959 allows to each command, and an unlisted one. *)
ReplyCodes(verb) ==
    UnlistedCodes \cup
    CASE verb = "USER" -> {230, 530, 500, 501, 421, 331, 332}
      [] verb = "PASS" -> {230, 202, 530, 500, 501, 503, 421, 332}
      [] verb = "CWD" -> {250, 500, 501, 502, 421, 530, 550}
      [] verb = "CDUP" -> {200, 250, 500, 501, 502, 421, 530, 550}
      [] verb = "PWD" -> {500, 501, 502, 421, 550}
      [] verb = "MKD" -> {257, 500, 501, 502, 421, 530, 550}
      [] verb = "RMD" -> {250, 500, 501, 502, 421, 530, 550}
      [] verb = "DELE" -> {200, 250, 450, 550, 500, 501, 502, 421, 530}
      [] verb = "RNFR" -> {250, 350, 450, 550, 500, 501, 502, 421, 530}
      [] verb = "RNTO" -> {250, 532, 553, 500, 501, 502, 503, 421, 530}
      [] verb = "PASV" -> {500, 501, 502, 421, 530}
      [] verb = "DATA" -> {450, 550, 500, 501, 421, 530}

Quoted(path) == <<"\"">> \o path \o <<"\"">>

(* 257 replies to PWD: a quoted path, two quoted texts, no quote at all, a
   single quote. *)
PwdReplies ==
    { ReplyLine(DIRECTORY_CREATED, Quoted(<<"/", "x">>) \o <<SP, "a">>),
      ReplyLine(DIRECTORY_CREATED, Quoted(<<"/", "x">>) \o <<SP>> \o Quoted(<<"y">>)),
      ReplyLine(DIRECTORY_CREATED, <<"a">>),
      ReplyLine(DIRECTORY_CREATED, <<"\"", "a">>) }

(* 227 replies to PASV: a well-formed payload, one without parentheses, one
   with five fields, one whose port does not fit 16 bits. *)
PasvPayloads ==
    { <<"(">> \o Join(<<to_string(127), to_string(0), to_string(0), to_string(1),
                        to_string(250), to_string(29)>>) \o <<")">>,
      Join(<<to_string(127), to_string(0), to_string(0), to_string(1),
             to_string(250), to_string(29)>>),
      <<"(">> \o Join(<<to_string(127), to_string(0), to_string(0), to_string(1),
                        to_string(250)>>) \o <<")">>,
      <<"(">> \o Join(<<to_string(127), to_string(0), to_string(0), to_string(1),
                        to_string(256), to_string(0)>>) \o <<")">> }

(* The confirming replies of a transfer: a preliminary one, then a final one. *)
TransferReplies ==
    { Say(first) \o Say(second) :
        first \in {DATA_TRANSFER_STARTING, FILE_OPENING_DATA},
        second \in {DATA_CLOSING, FILE_ACTION_COMPLETE, 425, 426, 451} }

Answers(verb) ==
    {Say(code) : code \in ReplyCodes(verb)} \cup
    CASE verb = "PWD" -> PwdReplies
      [] verb = "PASV" ->
            {ReplyLine(ENTERING_PASSIVE, <<"E", SP>> \o p) : p \in PasvPayloads}
      [] verb = "DATA" -> TransferReplies
      [] OTHER -> {}

(* What the server sends when the connection is made: one reply, single-line
   or multi-line, a delay notice followed by the ready reply, or a line that
   is no reply. *)
Greetings ==
    { Say(SERVICE_READY),
      CodeText(SERVICE_READY) \o <<"-", "a">> \o CRLF \o Say(SERVICE_READY),
      Say(READY_IN) \o Say(SERVICE_READY),
      Say(READY_IN) \o Say(SERVICE_NOT_AVAILABLE),
      Say(SERVICE_NOT_AVAILABLE),
      <<"a">> \o CRLF }
      \cup {Say(code) : code \in UnlistedCodes}

(* Arguments of the calls, and the bytes of a transfer. *)
Args == {<<"x">>}
Passwords == {<<"p">>, <<>>}
Payloads == {<<"d">>}

---------------------------------------------------------------------------
(* The session: Spec *)

Init ==
    /\ session = "none"
    /\ stream = Stream(<<>>, "open")
    /\ last = NoCall
    /\ nops = 0
    /\ reply = NoResponse

(* The call op(input) ends as x: its outcome and events are recorded, the
   stream is left where the call left it. *)
Return(op, input, x) ==
    /\ last' = [op |-> op, input |-> input, out |-> x.out, log |-> x.log]
    /\ stream' = x.st
    /\ session' = AfterOutcome(x.out)
    /\ nops' = nops + 1
    /\ UNCHANGED reply

CanCall == session = "open" /\ nops < MaxOps

(* FtpConnection::connect: no FtpConnection is returned, and the stream is
   dropped, unless the outcome is Ok. *)
Connected(greeting, x) ==
    /\ last' = [op |-> "connect", input |-> [tcp |-> TRUE, greeting |-> greeting],
                out |-> x.out, log |-> x.log]
    /\ session' = IF x.out.kind = "Ok" THEN "open"
                  ELSE IF x.out.kind = "Err" THEN "none"
                  ELSE AfterOutcome(x.out)
    /\ stream' = IF x.out.kind = "Ok" THEN x.st ELSE Stream(<<>>, "open")

Connect ==
    /\ session = "none"
    /\ nops < MaxOps
    /\ \/ /\ last' = [op |-> "connect", input |-> [tcp |-> FALSE, greeting |-> <<>>],
                      out |-> Err(ConnectionError), log |-> <<>>]
          /\ UNCHANGED <<session, stream>>
       \/ \E greeting \in Greetings : Connected(greeting, connect(greeting))
    /\ nops' = nops + 1
    /\ UNCHANGED reply

(* login once the reply to USER is read (or the call is over). *)
LoginUserReplied(x, username, password) ==
    IF x.done THEN Return("login", <<username, password>>, x)
    ELSE IF x.resp.status = PASSWORD_NEEDED
    THEN \E answer \in Answers("PASS") :
            Return("login", <<username, password>>,
                   login_pass(x, password, answer))
    ELSE Return("login", <<username, password>>,
                Finish(x, login_user_result(x.resp,
                                            CommandArg("USER", username))))

Login ==
    /\ CanCall
    /\ \E username \in Args, password \in Passwords, answer \in Answers("USER") :
         LoginUserReplied(login_user(stream, username, answer),
                          username, password)

Quit ==
    /\ CanCall
    /\ \E shutdown_ok \in BOOLEAN :
         Return("quit", <<>>, quit(stream, shutdown_ok))

(* The caller's path is any string: one holding a line break is among the
   paths. *)
Cd ==
    /\ CanCall
    /\ \E path \in Args \cup {<<"x", CR, LF, "y">>}, answer \in Answers("CWD") :
         Return("cd", path, cd(stream, path, answer))

Cdup ==
    /\ CanCall
    /\ \E answer \in Answers("CDUP") :
         Return("cdup", <<>>, cdup(stream, answer))

Pwd ==
    /\ CanCall
    /\ \E answer \in Answers("PWD") :
         Return("pwd", <<>>, pwd(stream, answer))

Mkdir ==
    /\ CanCall
    /\ \E dir_name \in Args, answer \in Answers("MKD") :
         Return("mkdir", dir_name, mkdir(stream, dir_name, answer))

Rmdir ==
    /\ CanCall
    /\ \E directory \in Args, answer \in Answers("RMD") :
         Return("rmdir", directory, rmdir(stream, directory, answer))

Rm ==
    /\ CanCall
    /\ \E file \in Args, answer \in Answers("DELE") :
         Return("rm", file, rm(stream, file, answer))

(* rename once the reply to RNFR is read (or the call is over). *)
RenameFromReplied(x, src, dst) ==
    IF x.done THEN Return("rename", <<src, dst>>, x)
    ELSE IF rnfr_accepted(x.resp.status)
    THEN \E answer \in Answers("RNTO") :
            Return("rename", <<src, dst>>, rename_to(x, dst, answer))
    ELSE Return("rename", <<src, dst>>,
                Finish(x, rnfr_failure(x.resp, CommandArg("RNFR", src))))

Rename ==
    /\ CanCall
    /\ \E src \in Args, dst \in Args, answer \in Answers("RNFR") :
         RenameFromReplied(rename_from(stream, src, answer), src, dst)

(* list once pasv() returned (or ended the call). *)
ListPassive(x) ==
    IF x.done THEN Return("list", <<>>, x)
    ELSE \E answer \in Answers("DATA"), transfer \in Transfers,
            bytes \in Payloads :
           Return("list", <<>>, list(x, answer, transfer, bytes))

List ==
    /\ CanCall
    /\ \E answer \in Answers("PASV"), overflow_checks \in BOOLEAN :
         ListPassive(pasv(Start(stream), answer, overflow_checks))

(* fetch_file once pasv() returned (or ended the call). *)
FetchFilePassive(x, file_name) ==
    IF x.done THEN Return("fetch_file", file_name, x)
    ELSE \E answer \in Answers("DATA"), transfer \in Transfers,
            bytes \in Payloads :
           Return("fetch_file", file_name,
                  fetch_file(x, file_name, answer, transfer, bytes))

FetchFile ==
    /\ CanCall
    /\ \E file_name \in Args, answer \in Answers("PASV"),
          overflow_checks \in BOOLEAN :
         FetchFilePassive(pasv(Start(stream), answer, overflow_checks),
                          file_name)

(* write_file once pasv() returned (or ended the call). *)
WriteFilePassive(x, file_name, data) ==
    IF x.done THEN Return("write_file", <<file_name, data>>, x)
    ELSE \E answer \in Answers("DATA"), transfer \in Transfers :
           Return("write_file", <<file_name, data>>,
                  write_file(x, file_name, answer, transfer))

WriteFile ==
    /\ CanCall
    /\ \E file_name \in Args, data \in Payloads, answer \in Answers("PASV"),
          overflow_checks \in BOOLEAN :
         WriteFilePassive(pasv(Start(stream), answer, overflow_checks),
                          file_name, data)

(* The peer closes the control connection, or the connection is reset. *)
PeerCloses ==
    /\ session = "open"
    /\ stream.end = "open"
    /\ stream' = Stream(stream.data, "eof")
    /\ UNCHANGED <<session, last, nops, reply>>

PeerResets ==
    /\ session = "open"
    /\ stream.end = "open"
    /\ stream' = Stream(stream.data, "err")
    /\ UNCHANGED <<session, last, nops, reply>>

Next ==
    \/ Connect \/ Login \/ Quit \/ Cd \/ Cdup \/ Pwd \/ Mkdir \/ Rmdir \/ Rm
    \/ Rename \/ List \/ FetchFile \/ WriteFile \/ PeerCloses \/ PeerResets

Spec == Init /\ [][Next]_vars

---------------------------------------------------------------------------
(* Helpers of the claims *)

StartsWith(s, p) == Len(s) >= Len(p) /\ SubSeq(s, 1, Len(p)) = p
EndsWith(s, p) == Len(s) >= Len(p) /\ SubSeq(s, Len(s) - Len(p) + 1, Len(s)) = p
IsDigits(s) == s # <<>> /\ \A i \in 1..Len(s) : s[i] \in DigitChars
StripDelims(s) == SelectSeq(s, LAMBDA c : c \notin {CR, LF})

(* The physical lines of a byte sequence, each with its delimiter. *)
RECURSIVE PhysLines(_)
PhysLines(d) ==
    IF d = <<>> THEN <<>>
    ELSE LET i == find(d, LF) IN
         IF i = 0 THEN <<d>>
         ELSE <<SubSeq(d, 1, i)>> \o PhysLines(SubSeq(d, i + 1, Len(d)))

(* ls starts with a multi-line reply "<code>-first", ..., "<code> last":
   the index of its closing line (the first later line that starts with
   "<code> "), or 0. *)
MultiLineEnd(ls) ==
    IF /\ Len(ls) >= 2
       /\ Len(ls[1]) >= 4
       /\ IsDigits(SubSeq(ls[1], 1, 3))
       /\ ls[1][4] = "-"
       /\ EndsWith(ls[1], CRLF)
    THEN LET closers == {k \in 2..Len(ls) :
                            /\ StartsWith(ls[k], SubSeq(ls[1], 1, 3) \o <<SP>>)
                            /\ EndsWith(ls[k], CRLF)}
         IN IF closers = {} THEN 0
            ELSE CHOOSE k \in closers : \A j \in closers : k <= j
    ELSE 0

DecodedInput == PhysLines(last.input.data)

---------------------------------------------------------------------------
(* C1: for every multi-line reply "<code>-first", interior lines,
   "<code> last" at the head of the control stream, wait_for_response
   returns status <code> and, as content, all physical lines of the reply in
   order (compared here without regard to the line delimiters).
   The code keeps the closing line only, so TLC refutes this. *)
C1_MultiLineKeepsAllLines ==
    (last.op = "wait_for_response" /\ MultiLineEnd(DecodedInput) > 0) =>
        /\ last.out.kind = "Ok"
        /\ last.out.val.status = DigitsValue(SubSeq(DecodedInput[1], 1, 3))
        /\ StripDelims(last.out.val.content) =
              StripDelims(Flatten(SubSeq(DecodedInput, 1, MultiLineEnd(DecodedInput))))

(* The stream starts with one line "<3 digits><space><text>" CRLF. *)
SingleLineHead(ls) ==
    /\ ls # <<>>
    /\ Len(ls[1]) >= 6
    /\ IsDigits(SubSeq(ls[1], 1, 3))
    /\ ls[1][4] = SP
    /\ EndsWith(ls[1], CRLF)

(* C2: for a line "<3 digits><space><text>" followed by the line delimiter,
   the decoder reads exactly that line and returns status = the digits' value
   and content = the line with its delimiter stripped.
   The code stores the delimiter in content, so TLC refutes this. *)
C2_SingleLineDelimiterStripped ==
    (last.op = "wait_for_response" /\ SingleLineHead(DecodedInput)) =>
        /\ last.out.kind = "Ok"
        /\ last.out.val.status = DigitsValue(SubSeq(DecodedInput[1], 1, 3))
        /\ last.out.val.content =
              SubSeq(DecodedInput[1], 1, Len(DecodedInput[1]) - 2)
        /\ stream.data = Flatten(Tail(DecodedInput))

---------------------------------------------------------------------------
(* Claims about the operations of a session *)

Statuses(events) == [i \in 1..Len(events) |-> events[i].resp.status]

(* The statuses of the replies the last call read, in order. *)
ReadStatuses == Statuses(SelectSeq(last.log, LAMBDA e : e.ev = "read"))

(* The last call wrote (or tried to write) a command with this verb. *)
Wrote(verb) ==
    \E i \in 1..Len(last.log) :
        /\ last.log[i].ev \in {"write", "write_failed"}
        /\ StartsWith(last.log[i].text, VerbText(verb))

(* The server answered a command of the last call with these two replies. *)
Answered(first, second) ==
    \E i \in 1..Len(last.log) :
        /\ last.log[i].ev = "answer"
        /\ PhysLines(last.log[i].text) =
              <<CodeText(first) \o <<SP, "a">> \o CRLF,
                CodeText(second) \o <<SP, "a">> \o CRLF>>

SessionOps ==
    {"login", "quit", "cd", "cdup", "pwd", "list", "mkdir", "rmdir",
     "fetch_file", "write_file", "rm", "rename"}

DataOps == {"list", "fetch_file", "write_file"}

(* C3: whenever an operation of a session returns with an outcome other than
   ConnectionError, every reply the server sent for the commands of that
   operation has been consumed: nothing is left unread on the control
   stream for the next operation to take as its own reply.
   list, fetch_file and write_file return at the first reply they do not
   accept and leave the second confirming reply unread, so TLC refutes this. *)
C3_RepliesConsumedOnReturn ==
    (/\ last.op \in SessionOps
     /\ Returns(last.out)
     /\ last.out.error # ConnectionError) => stream.data = <<>>

(* C4: in rename, RNTO is written if and only if the reply to RNFR has code
   350 or 250; on any other reply to RNFR rename returns a failure and RNTO
   is not written during the call. *)
C4_RntoOnlyAfterAcceptedRnfr ==
    last.op = "rename" =>
        /\ Wrote("RNTO") <=>
              (ReadStatuses # <<>> /\ ReadStatuses[1] \in {350, 250})
        /\ (ReadStatuses # <<>> /\ ReadStatuses[1] \notin {350, 250}) =>
              (last.out.kind = "Err" /\ ~Wrote("RNTO"))

(* rename returned a failure on a 550 reply to RNFR and wrote no RNTO. *)
C4_Witness ==
    /\ last.op = "rename"
    /\ ReadStatuses = <<550>>
    /\ last.out.kind = "Err"
    /\ Wrote("RNFR")
    /\ ~Wrote("RNTO")

(* The last call opened the data connection and went on to read a
   confirming reply: PASV and the transfer succeeded. *)
TransferDone ==
    \E i, j \in 1..Len(last.log) :
        /\ i < j
        /\ last.log[i].ev = "data_close"
        /\ last.log[j].ev \in {"read", "read_failed"}

(* C5: for list, fetch_file and write_file, after a successful PASV and
   transfer, the operation returns success whenever the first confirming
   reply is 150 or 125 and the second is 226 or 250.
   The code accepts 150 followed by 226 only, so TLC refutes this. *)
C5_ConfirmingRepliesAccepted ==
    (/\ last.op \in DataOps
     /\ TransferDone
     /\ \E first \in {150, 125}, second \in {226, 250} :
            Answered(first, second)) => last.out.kind = "Ok"

(* The code of a line "<3 digits><space><text>" CRLF. *)
LineCode(line) == DigitsValue(SubSeq(line, 1, 3))

GreetingLines == PhysLines(last.input.greeting)

(* C6: when the first reply after the transport handshake has code 120,
   connect awaits a second reply and returns a session if that one has code
   220; when the first reply has code 220 it returns a session at once.
   The code accepts 220 as the first reply only, so TLC refutes this. *)
C6_DelayNoticeThenReady ==
    (last.op = "connect" /\ last.input.tcp /\ SingleLineHead(GreetingLines)) =>
        /\ LineCode(GreetingLines[1]) = 220 =>
              (last.out.kind = "Ok" /\ session = "open")
        /\ (/\ LineCode(GreetingLines[1]) = 120
            /\ SingleLineHead(Tail(GreetingLines))
            /\ LineCode(GreetingLines[2]) = 220) =>
              (last.out.kind = "Ok" /\ session = "open")

(* C7: connect returns a session only if a reply with code 220 was read on
   the new control stream; a transport connection failure returns
   ConnectionError, and a greeting with a code outside the ready sequence
   (neither 220 nor 120) returns InvalidResponseError carrying that greeting;
   in both cases no session exists afterwards. *)
C7_SessionOnlyAfterReady ==
    last.op = "connect" =>
        /\ (last.out.kind = "Ok" \/ session = "open") =>
              \E i \in 1..Len(ReadStatuses) : ReadStatuses[i] = 220
        /\ ~last.input.tcp =>
              (last.out = Err(ConnectionError) /\ session = "none")
        /\ (/\ last.input.tcp
            /\ SingleLineHead(GreetingLines)
            /\ LineCode(GreetingLines[1]) \notin {220, 120}) =>
              /\ last.out.kind = "Err"
              /\ last.out.error.err = "InvalidResponseError"
              /\ last.out.error.resp.status = LineCode(GreetingLines[1])
              /\ StripDelims(last.out.error.resp.content) =
                    StripDelims(GreetingLines[1])
              /\ session = "none"

(* connect got the greeting 421 and returned InvalidResponseError with it. *)
C7_Witness ==
    /\ last.op = "connect"
    /\ last.input.tcp
    /\ ReadStatuses = <<421>>
    /\ last.out.kind = "Err"
    /\ last.out.error.err = "InvalidResponseError"
    /\ last.out.error.resp.status = 421
    /\ session = "none"

(* C8: login returns Ok exactly when the reply to USER is 230, or the reply
   to USER is 331 and the reply to the PASS that follows is 230; for every
   other combination of reply codes it returns an error. *)
C8_LoginOkExactly ==
    last.op = "login" =>
        /\ last.out.kind = "Ok" <=> ReadStatuses \in {<<230>>, <<331, 230>>}
        /\ (/\ ReadStatuses \notin {<<>>, <<230>>, <<331, 230>>}
            /\ (ReadStatuses[1] = 331 => Len(ReadStatuses) = 2)) =>
              last.out.kind = "Err"
        /\ Wrote("PASS") <=> (ReadStatuses # <<>> /\ ReadStatuses[1] = 331)

(* login sent USER, read 331, sent PASS, read 230 and returned Ok. *)
C8_Witness ==
    /\ last.op = "login"
    /\ ReadStatuses = <<331, 230>>
    /\ Wrote("PASS")
    /\ last.out.kind = "Ok"

---------------------------------------------------------------------------
(* Claims about parse_pasv_addr *)

PasvCall == last.op = "parse_pasv_addr" /\ last.input.status = ENTERING_PASSIVE

(* A decimal number in 0..255, written with digits only. *)
PlainOctet(t) == IsDigits(t) /\ Len(t) <= 4 /\ DigitsValue(t) <= 255

(* content[i] = '(' and content[j] = ')' enclose six plain octets. *)
GroupAt(content, i, j) ==
    /\ i < j
    /\ content[i] = "("
    /\ content[j] = ")"
    /\ LET fields == split(SubSeq(content, i + 1, j - 1), ",") IN
       /\ Len(fields) = 6
       /\ \A k \in 1..6 : PlainOctet(fields[k])

GroupEndpoint(content, i, j) ==
    LET fields == split(SubSeq(content, i + 1, j - 1), ",") IN
    SocketAddrV4([k \in 1..4 |-> DigitsValue(fields[k])],
                 DigitsValue(fields[5]) * 256 + DigitsValue(fields[6]))

(* "227 Entering passive (127,0,0,1,250,29)" *)
ExampleContent ==
    CodeText(227) \o <<SP, "E", "n", "t", "e", "r", "i", "n", "g", SP,
                       "p", "a", "s", "s", "i", "v", "e", SP, "(">>
      \o Join(<<to_string(127), to_string(0), to_string(0), to_string(1),
                to_string(250), to_string(29)>>) \o <<")">>

(* C9 as stated: on a 227 reply whose content contains, anywhere, a group
   "(o1,o2,o3,o4,p1,p2)" of numbers in 0..255, parse_pasv_addr returns
   o1.o2.o3.o4 and port p1*256+p2.  TLC refutes this on a content with a
   parenthesis before the group. *)
C9_AnyGroupParses ==
    PasvCall =>
        \A i, j \in 1..Len(last.input.content) :
            GroupAt(last.input.content, i, j) =>
                /\ last.out.kind = "Ok"
                /\ last.out.val = GroupEndpoint(last.input.content, i, j)

(* C9 as amended: the same, when the group is opened by the first '(' of the
   content and closed by its first ')'; and the example of the claim yields
   127.0.0.1 port 64029 in either build. *)
C9_FirstGroupParses ==
    /\ PasvCall =>
          LET i == find(last.input.content, "(")
              j == find(last.input.content, ")")
          IN (i > 0 /\ j > 0 /\ GroupAt(last.input.content, i, j)) =>
                /\ last.out.kind = "Ok"
                /\ last.out.val = GroupEndpoint(last.input.content, i, j)
    /\ \A overflow_checks \in BOOLEAN :
          parse_pasv_addr(FtpResponse(ENTERING_PASSIVE, ExampleContent),
                          overflow_checks)
            = Ok(SocketAddrV4(<<127, 0, 0, 1>>, 64029))

C9_Witness ==
    /\ PasvCall
    /\ find(last.input.content, "(") > 0
    /\ find(last.input.content, ")") > 0
    /\ GroupAt(last.input.content, find(last.input.content, "("),
               find(last.input.content, ")"))
    /\ last.out.kind = "Ok"
    /\ last.out.val = SocketAddrV4(<<127, 0, 0, 1>>, 64029)

(* The payload is malformed in one of the ways the claim lists. *)
MalformedPayload(content) ==
    LET open == find(content, "(")
        close == find(content, ")")
    IN \/ open = 0
       \/ close = 0
       \/ close < open
       \/ LET fields == split(SubSeq(content, open + 1, close - 1), ",") IN
          \/ Len(fields) # 6
          \/ \E k \in 1..4 : ~parse_u(fields[k], U8_MAX).ok
          \/ \E k \in 5..6 : ~parse_u(fields[k], U16_MAX).ok

(* C10: on a 227 reply with a malformed payload parse_pasv_addr returns
   InvalidResponseError carrying a copy of the reply, and never panics.
   The code panics when ')' is missing or precedes '(', so TLC refutes
   this. *)
C10_MalformedPayloadIsError ==
    (PasvCall /\ MalformedPayload(last.input.content)) =>
        /\ last.out.kind = "Err"
        /\ last.out.error = InvalidResponseError(last.input)

(* C11: on a reply whose status is not 227 parse_pasv_addr returns
   InvalidTypeError whatever the content is: without parentheses, or with a
   payload that would parse as an endpoint. *)
C11_WrongKindWhateverContent ==
    (last.op = "parse_pasv_addr" /\ last.input.status # 227) =>
        last.out = Err(InvalidTypeError)

(* parse_pasv_addr was called on a 200 reply whose content holds a valid
   payload group and returned InvalidTypeError. *)
C11_Witness ==
    /\ last.op = "parse_pasv_addr"
    /\ last.input.status = 200
    /\ find(last.input.content, "(") > 0
    /\ find(last.input.content, ")") > 0
    /\ GroupAt(last.input.content, find(last.input.content, "("),
               find(last.input.content, ")"))
    /\ last.out = Err(InvalidTypeError)

---------------------------------------------------------------------------
(* Claims about pwd *)

(* The replies the last call read, in order, and the one read last. *)
Reads == SelectSeq(last.log, LAMBDA e : e.ev = "read")
LastReply == Reads[Len(Reads)].resp

QuoteCount(text) == Cardinality({i \in 1..Len(text) : text[i] = "\""})

(* The text strictly between the first and the second '"' of text. *)
FirstQuoted(text) ==
    LET first == find(text, "\"")
        second == first + find(SubSeq(text, first + 1, Len(text)), "\"")
    IN SubSeq(text, first + 1, second - 1)

(* 257 "/home/test" is current directory *)
PwdExample ==
    CodeText(257) \o <<SP>> \o Quoted(<<"/", "h", "o", "m", "e", "/", "t", "e", "s", "t">>)
      \o <<SP, "i", "s", SP, "c", "u", "r", "r", "e", "n", "t", SP,
           "d", "i", "r", "e", "c", "t", "o", "r", "y">> \o CRLF

(* C12: when the reply to PWD has code 257 and its text has at least two
   '"', pwd returns Ok with exactly the text strictly between the first and
   the second '"'; the reply 257 "/home/test" is current directory yields
   "/home/test". *)
C12_PwdReturnsFirstQuoted ==
    /\ (/\ last.op = "pwd"
        /\ ReadStatuses = <<257>>
        /\ QuoteCount(LastReply.content) >= 2) =>
          last.out = Ok(FirstQuoted(LastReply.content))
    /\ pwd(Stream(<<>>, "open"), PwdExample).out =
          Ok(<<"/", "h", "o", "m", "e", "/", "t", "e", "s", "t">>)

(* pwd read a 257 reply with four '"' and returned the first quoted text. *)
C12_Witness ==
    /\ last.op = "pwd"
    /\ ReadStatuses = <<257>>
    /\ QuoteCount(LastReply.content) = 4
    /\ last.out = Ok(<<"/", "x">>)

(* C13: when the reply to PWD has code 257 and its text has fewer than two
   '"' (none, or exactly one), pwd returns InvalidResponseFormatError; it
   neither returns Ok nor aborts.
   The code counts the fields of the split, not the quotes: with exactly
   one '"' it returns Ok with the text after it, so TLC refutes this. *)
C13_PwdFewerThanTwoQuotes ==
    (/\ last.op = "pwd"
     /\ ReadStatuses = <<257>>
     /\ QuoteCount(LastReply.content) < 2) =>
        last.out = Err(InvalidResponseFormatError)

---------------------------------------------------------------------------
(* Claims about failures while a reply is read *)

(* The line opens a multi-line reply: "<3 digits>-<text>" CRLF. *)
IsOpener(line) ==
    /\ Len(line) >= 6
    /\ IsDigits(SubSeq(line, 1, 3))
    /\ line[4] = "-"
    /\ EndsWith(line, CRLF)

(* The stream ends (it is closed, or it fails) while a reply is being read:
   before any byte of the first line, after a part of the first line, or
   after the opening line of a multi-line reply and before its closing
   line. *)
EndsInsideReply(ls) ==
    \/ ls = <<>>
    \/ Len(ls) = 1 /\ ~EndsWith(ls[1], <<LF>>)
    \/ IsOpener(ls[1]) /\ MultiLineEnd(ls) = 0

(* C14: if the control stream fails or is closed by the peer while a reply
   is being read, the call returns ConnectionError; it neither aborts nor
   returns anything else.
   When the peer closed the stream, read_line returns Ok(0): the code goes
   on with the bytes it has, so TLC refutes this. *)
C14_StreamEndIsConnectionError ==
    (last.op = "wait_for_response" /\ EndsInsideReply(DecodedInput)) =>
        last.out = Err(ConnectionError)

(* C15: when the first line read for a reply is shorter than 4 bytes, or
   its first three bytes are not all digits, the decoder returns
   InvalidResponseFormatError; it returns no reply and does not abort.
   (The line is a whole line, ended by its delimiter.)
   The code takes such a line for the opening of a multi-line reply, and
   parses "+12" as the status 12, so TLC refutes this. *)
C15_BadFirstLineIsMalformed ==
    (/\ last.op = "wait_for_response"
     /\ DecodedInput # <<>>
     /\ EndsWith(DecodedInput[1], <<LF>>)
     /\ \/ Len(DecodedInput[1]) < 4
        \/ ~IsDigits(SubSeq(DecodedInput[1], 1, 3))) =>
        last.out = Err(InvalidResponseFormatError)

---------------------------------------------------------------------------
(* Claims about quit *)

(* The last call wrote this command, and the write succeeded. *)
Written(verb) ==
    \E i \in 1..Len(last.log) :
        /\ last.log[i].ev = "write"
        /\ StartsWith(last.log[i].text, VerbText(verb))

(* C16: quit writes QUIT and closes the control stream without reading a
   reply; whenever the write of QUIT succeeded it returns Ok, even if
   closing the stream reports an error.
   The code returns ConnectionError when the shutdown fails, so TLC refutes
   this. *)
C16_QuitOkAfterWrite ==
    (last.op = "quit" /\ Written("QUIT")) =>
        /\ last.out = Ok(<<>>)
        /\ ReadStatuses = <<>>
        /\ stream.end = "shut"

---------------------------------------------------------------------------
(* Claims about the matches on reply codes *)

IsWrite(e) == e.ev \in {"write", "write_failed"}

(* The position in the log of the command the last call wrote last (0: it
   wrote none), its verb, and the replies read after it. *)
LastWriteAt ==
    IF \E i \in 1..Len(last.log) : IsWrite(last.log[i])
    THEN CHOOSE i \in 1..Len(last.log) :
            /\ IsWrite(last.log[i])
            /\ \A j \in (i + 1)..Len(last.log) : ~IsWrite(last.log[j])
    ELSE 0

Verbs ==
    {"USER", "PASS", "QUIT", "CWD", "CDUP", "PWD", "LIST", "MKD", "RMD",
     "RETR", "STOR", "DELE", "RNFR", "RNTO", "PASV"}

StepVerb ==
    IF LastWriteAt = 0 THEN "none"
    ELSE CHOOSE v \in Verbs : StartsWith(last.log[LastWriteAt].text, VerbText(v))

StepReads ==
    SelectSeq(SubSeq(last.log, LastWriteAt + 1, Len(last.log)),
              LAMBDA e : e.ev = "read")

(* The codes that the step reading the position-th reply to a command
   takes as success or as a named failure; "none" is the greeting. *)
KnownCodes(verb, position) ==
    CASE verb = "none" -> {220, 120}
      [] verb = "USER" -> {331, 230, 530, 332, 500, 501, 421}
      [] verb = "PASS" -> {230, 202, 530, 500, 501, 503, 421, 332}
      [] verb \in {"CWD", "CDUP", "RMD"} -> {250, 550, 500, 501, 502, 421, 530}
      [] verb \in {"PWD", "MKD"} -> {257, 550, 500, 501, 502, 421, 530}
      [] verb = "DELE" -> {200, 250, 450, 550, 500, 501, 502, 421, 530}
      [] verb = "RNFR" -> {250, 350, 450, 550, 500, 501, 502, 421, 530}
      [] verb = "RNTO" -> {250, 532, 553, 500, 501, 502, 503, 421, 530}
      [] verb = "PASV" -> {227, 500, 501, 502, 421, 530}
      [] verb \in {"LIST", "RETR", "STOR"} ->
            IF position = 1 THEN {150, 125} ELSE {226, 250}
      [] OTHER -> {}

(* C17: in every operation, a well-formed reply whose code is neither a
   success nor a named failure of the step that reads it makes the
   operation return InvalidResponseError carrying exactly that reply, its
   status and its text; the operation does not abort and carries no other
   reply. *)
C17_UnknownCodeIsInvalidResponse ==
    (/\ last.op \in SessionOps \cup {"connect"}
     /\ StepReads # <<>>
     /\ LastReply.status \notin KnownCodes(StepVerb, Len(StepReads))) =>
        /\ last.out = Err(InvalidResponseError(LastReply))
        /\ StartsWith(LastReply.content, CodeText(LastReply.status) \o <<SP>>)
        /\ Len(CodeText(LastReply.status)) = 3

(* cd read the reply 299, which no arm names, and returned
   InvalidResponseError with it. *)
C17_Witness ==
    /\ last.op = "cd"
    /\ ReadStatuses = <<299>>
    /\ last.out = Err(InvalidResponseError(LastReply))
    /\ StripDelims(last.out.error.resp.content) = <<"2", "9", "9", SP, "a">>

(* C18: in list, fetch_file and write_file, when the data connection was
   opened, used and closed without error and a confirming reply has a code
   outside the set expected at its position (150 or 125 first, 226 or 250
   second), the operation returns InvalidResponseError carrying that reply,
   and no payload. *)
C18_UnexpectedConfirmation ==
    (/\ last.op \in DataOps
     /\ TransferDone
     /\ StepReads # <<>>
     /\ LastReply.status \notin
           (IF Len(StepReads) = 1 THEN {150, 125} ELSE {226, 250})) =>
        /\ last.out = Err(InvalidResponseError(LastReply))
        /\ last.out.val = <<>>

(* list transferred the data, read 150 and then 426, and returned
   InvalidResponseError with the 426 reply. *)
C18_Witness ==
    /\ last.op = "list"
    /\ TransferDone
    /\ ReadStatuses = <<227, 150, 426>>
    /\ last.out = Err(InvalidResponseError(LastReply))
    /\ last.out.error.resp.status = 426

(* The failure rename returns for each reply to RNTO other than 250. *)
RntoFailure(code) ==
    CASE code = 553 -> "InvalidFileName"
      [] code = 503 -> "BadCommandSequence"
      [] code = 532 -> "AccountRequired"
      [] code = 530 -> "NotLoggedIn"
      [] code = 421 -> "ServiceUnavailable"
      [] code = 500 -> "SyntaxError"
      [] code = 501 -> "SyntaxErrorParameters"
      [] code = 502 -> "CommandUnimplemented"
      [] OTHER -> "InvalidResponseError"

(* C19: in rename, when the reply to RNFR is 350 or 250 and the reply to
   RNTO is not 250, rename returns the failure that the RNTO reply alone
   determines; InvalidResponseError carries the RNTO reply, not the RNFR
   reply; no command is written after RNTO. *)
C19_RntoFailureIsItsOwn ==
    (/\ last.op = "rename"
     /\ Len(Reads) = 2
     /\ Reads[1].resp.status \in {350, 250}
     /\ Reads[2].resp.status # 250) =>
        /\ last.out.kind = "Err"
        /\ last.out.error.err = RntoFailure(Reads[2].resp.status)
        /\ last.out.error.err = "InvalidResponseError" =>
              last.out.error.resp = Reads[2].resp
        /\ last.out.error.err # "InvalidResponseError" =>
              last.out.error.resp = NoResponse
        /\ StepVerb = "RNTO"
        /\ Len(SelectSeq(last.log, IsWrite)) = 2

(* rename got 350 for RNFR and 553 for RNTO and returned InvalidFileName. *)
C19_Witness ==
    /\ last.op = "rename"
    /\ ReadStatuses = <<350, 553>>
    /\ last.out = Err(PlainError("InvalidFileName"))
    /\ StepVerb = "RNTO"

(* The codes on which each single-reply operation returns Ok. *)
SuccessCodes(op) ==
    CASE op = "cd" -> {250}
      [] op = "cdup" -> {250}
      [] op = "mkdir" -> {257}
      [] op = "rmdir" -> {250}
      [] op = "rm" -> {200, 250}

(* C20: cd returns Ok iff the reply code is 250, cdup iff 250, mkdir iff
   257, rmdir iff 250, rm iff 200 or 250; on every other reply code the
   operation returns an error. *)
C20_SuccessCodeTable ==
    (/\ last.op \in {"cd", "cdup", "mkdir", "rmdir", "rm"}
     /\ Reads # <<>>) =>
        /\ Len(Reads) = 1
        /\ last.out.kind = "Ok" <=> LastReply.status \in SuccessCodes(last.op)
        /\ LastReply.status \notin SuccessCodes(last.op) => last.out.kind = "Err"
        /\ last.out.kind = "Ok" => last.out = Ok(<<>>)

(* rm read the reply 200 and returned Ok. *)
C20_Witness ==
    /\ last.op = "rm"
    /\ ReadStatuses = <<200>>
    /\ last.out = Ok(<<>>)


----------------------------------------------------------------------------
(* The example session of the crate documentation against a server that
   answers every command the same way whenever it is sent: SpecScenario.
   The caller makes its calls in any order; `last.input` is the list of the
   calls made so far and `last.log` the events of all of them. *)

ScenarioLength == 7

ScenarioAnswer(verb) ==
    CASE verb = "GREETING" ->
            ReplyLine(SERVICE_READY, <<"r", "e", "a", "d", "y">>)
      [] verb = "USER" -> Say(PASSWORD_NEEDED)
      [] verb = "PASS" -> Say(LOGGED_IN)
      [] verb = "MKD" ->
            ReplyLine(DIRECTORY_CREATED, Quoted(<<"/", "x">>)
                \o <<SP, "c", "r", "e", "a", "t", "e", "d">>)
      [] verb = "PWD" ->
            ReplyLine(DIRECTORY_CREATED, Quoted(<<"/", "x">>)
                \o <<SP, "i", "s", SP, "c", "w", "d">>)
      [] OTHER -> Say(FILE_ACTION_COMPLETE)

(* login once the reply to USER is read (or the call is over). *)
ScenarioLogin(x) ==
    IF x.done THEN x
    ELSE IF x.resp.status = PASSWORD_NEEDED
    THEN login_pass(x, <<"p">>, ScenarioAnswer("PASS"))
    ELSE Finish(x, login_user_result(x.resp, CommandArg("USER", <<"x">>)))

ScenarioCall(op) ==
    CASE op = "login" ->
            ScenarioLogin(login_user(stream, <<"x">>, ScenarioAnswer("USER")))
      [] op = "mkdir" -> mkdir(stream, <<"x">>, ScenarioAnswer("MKD"))
      [] op = "cd" -> cd(stream, <<"x">>, ScenarioAnswer("CWD"))
      [] op = "pwd" -> pwd(stream, ScenarioAnswer("PWD"))
      [] op = "cdup" -> cdup(stream, ScenarioAnswer("CDUP"))
      [] op = "rmdir" -> rmdir(stream, <<"x">>, ScenarioAnswer("RMD"))

ScenarioReturn(op, x) ==
    /\ last' = [op |-> op, input |-> Append(last.input, op), out |-> x.out,
                log |-> last.log \o x.log]
    /\ stream' = x.st
    /\ session' = IF op = "connect" /\ x.out.kind = "Ok" THEN "open"
                  ELSE AfterOutcome(x.out)
    /\ nops' = nops + 1
    /\ UNCHANGED reply

ScenarioConnect ==
    /\ session = "none"
    /\ nops = 0
    /\ ScenarioReturn("connect", connect(ScenarioAnswer("GREETING")))

ScenarioStep ==
    /\ session = "open"
    /\ nops < ScenarioLength
    /\ \E op \in {"login", "mkdir", "cd", "pwd", "cdup", "rmdir"} :
         ScenarioReturn(op, ScenarioCall(op))

NextScenario == ScenarioConnect \/ ScenarioStep

SpecScenario == Init /\ [][NextScenario]_vars

(* The calls of the example, the commands they send and what they return. *)
ExampleCalls == <<"connect", "login", "mkdir", "cd", "pwd", "cdup", "rmdir">>

ExampleCommands ==
    << CommandArg("USER", <<"x">>), CommandArg("PASS", <<"p">>),
       CommandArg("MKD", <<"x">>), CommandArg("CWD", <<"x">>),
       Command("PWD"), Command("CDUP"), CommandArg("RMD", <<"x">>) >>

(* How many commands the first n calls of the example send. *)
ExampleSent(n) == IF n <= 1 THEN 0 ELSE n

IsPrefix(s, t) == Len(s) <= Len(t) /\ SubSeq(t, 1, Len(s)) = s

WritesOf(log) == SelectSeq(log, LAMBDA e : e.ev \in {"write", "write_failed"})
Exchanges(log) == SelectSeq(log, LAMBDA e : e.ev \in {"write", "read"})

(* C21: as long as the calls made are connect, login, mkdir("x"), cd("x"),
   pwd, cdup, rmdir("x") in this order against the scripted server, every
   call returns Ok, pwd returns "/x", the commands written are USER, PASS,
   MKD x, CWD x, PWD, CDUP, RMD x in this order, and after the greeting is
   read writes and reads alternate, so that each command is written only
   after the reply to the previous one was read. *)
C21_ExampleSessionSucceeds ==
    (last.op # "none" /\ IsPrefix(last.input, ExampleCalls)) =>
        /\ last.out.kind = "Ok"
        /\ last.op = "pwd" => last.out.val = <<"/", "x">>
        /\ [i \in 1..Len(WritesOf(last.log)) |-> WritesOf(last.log)[i].text]
             = SubSeq(ExampleCommands, 1, ExampleSent(Len(last.input)))
        /\ \A i \in 1..Len(WritesOf(last.log)) : WritesOf(last.log)[i].ev = "write"
        /\ Len(Exchanges(last.log)) = 1 + 2 * ExampleSent(Len(last.input))
        /\ \A i \in 1..Len(Exchanges(last.log)) :
              Exchanges(last.log)[i].ev = IF i % 2 = 1 THEN "read" ELSE "write"
        /\ stream.data = <<>>

C21_Witness ==
    /\ last.input = ExampleCalls
    /\ last.op = "rmdir"
    /\ last.out.kind = "Ok"
    /\ Len(WritesOf(last.log)) = 7

(* The bytes of the decoded stream hold all that the decoder reads: it
   returns on them even while the peer stays connected and silent. *)
DecidedByBytes(st) ==
    wait_for_response(Stream(st.data, "open")).out.kind # "Block"

(* C22: decoding is a function of the bytes.  A second run of the decoder
   on a stream with the content of the first gives the outcome of the first;
   when the bytes hold all that the decoder reads, so does a run on a stream
   with the same content that ends in any other way (peer silent, closed,
   reset); and a reply the decoder returns on a single line is the one
   from_str gives for that line. *)
C22_DecodingIsDeterministic ==
    last.op = "wait_for_response" =>
        /\ wait_for_response(last.input).out = last.out
        /\ DecidedByBytes(last.input) =>
              \A end \in {"open", "eof", "err", "shut"} :
                 /\ wait_for_response(Stream(last.input.data, end)).out = last.out
                 /\ wait_for_response(Stream(last.input.data, end)).rest.data
                       = stream.data
        /\ from_str(read_line(last.input).line).kind = "Ok" =>
              last.out = from_str(read_line(last.input).line)

C22_Witness ==
    /\ last.op = "wait_for_response"
    /\ last.input.end = "err"
    /\ DecidedByBytes(last.input)
    /\ last.out.kind = "Ok"
    /\ stream.data # <<>>

(* The event is the write (or the attempt to write) of LIST, RETR or STOR. *)
IsPrimary(e) ==
    /\ IsWrite(e)
    /\ \E v \in {"LIST", "RETR", "STOR"} : StartsWith(e.text, VerbText(v))

(* The endpoints parse_pasv_addr returns for the reply read at position j
   of the log of the last call. *)
PasvEndpoints(j) ==
    { parse_pasv_addr(last.log[j].resp, overflow_checks).val :
        overflow_checks \in { b \in BOOLEAN :
            parse_pasv_addr(last.log[j].resp, b).kind = "Ok" } }

(* At position j the last call read a 227 reply to the PASV it had written,
   and an endpoint was parsed from it. *)
PasvAnsweredAt(j) ==
    /\ last.log[j].ev = "read"
    /\ last.log[j].resp.status = ENTERING_PASSIVE
    /\ PasvEndpoints(j) # {}
    /\ \E i \in 1..(j - 1) :
          last.log[i].ev = "write" /\ last.log[i].text = Command("PASV")

(* C23: in list, fetch_file and write_file the primary command is written
   only after PASV was written and answered by a 227 reply from which an
   endpoint was parsed; the data connection is opened only to that endpoint;
   the confirming replies are read only after the data connection was
   opened and closed; and when the PASV step fails no primary command is
   written and no data connection is opened. *)
C23_DataOperationOrder ==
    last.op \in DataOps =>
        /\ \A k \in 1..Len(last.log) :
              /\ IsPrimary(last.log[k]) =>
                    \E j \in 1..(k - 1) : PasvAnsweredAt(j)
              /\ last.log[k].ev = "data_open" =>
                    \E j \in 1..(k - 1) :
                        /\ PasvAnsweredAt(j)
                        /\ last.log[k].addr \in PasvEndpoints(j)
              /\ (/\ last.log[k].ev \in {"read", "read_failed"}
                  /\ \E p \in 1..(k - 1) : IsPrimary(last.log[p])) =>
                    \E o, c \in 1..(k - 1) :
                        /\ o < c
                        /\ last.log[o].ev = "data_open"
                        /\ last.log[c].ev = "data_close"
        /\ (~ \E j \in 1..Len(last.log) : PasvAnsweredAt(j)) =>
              \A k \in 1..Len(last.log) :
                  ~IsPrimary(last.log[k]) /\ last.log[k].ev # "data_open"

C23_Witness ==
    /\ last.op = "fetch_file"
    /\ last.out.kind = "Ok"
    /\ \E k \in 1..Len(last.log) : last.log[k].ev = "data_open"
    /\ Len(Reads) = 3

C23_WitnessPasvFails ==
    /\ last.op = "list"
    /\ Len(Reads) = 1
    /\ Reads[1].resp.status = ENTERING_PASSIVE
    /\ ~Wrote("LIST")

(* C24: login writes PASS if and only if the reply it read after writing
   USER has code 331; when that reply has code 530 login returns
   NotLoggedIn; and for any code other than 331 (230, 332, 500, 501, 421 or
   any other) the call writes USER only and reads nothing more. *)
C24_PassOnlyAfterPasswordNeeded ==
    last.op = "login" =>
        /\ Wrote("PASS") <=> (ReadStatuses # <<>> /\ ReadStatuses[1] = 331)
        /\ (ReadStatuses # <<>> /\ ReadStatuses[1] = 530) =>
              last.out = Err(PlainError("NotLoggedIn"))
        /\ (ReadStatuses # <<>> /\ ReadStatuses[1] # 331) =>
              /\ Len(ReadStatuses) = 1
              /\ Len(SelectSeq(last.log, IsWrite)) = 1
              /\ ~Wrote("PASS")

C24_Witness ==
    /\ last.op = "login"
    /\ ReadStatuses = <<530>>
    /\ last.out = Err(PlainError("NotLoggedIn"))
    /\ ~Wrote("PASS")

(* C25: the loop of wait_for_response ends on every finite input: on a
   stream that delivers a closing line or comes to its end, the call returns
   a reply or an error; it does not read forever.
   Once the peer has closed the stream inside a multi-line reply every
   read_line returns Ok(0) and the loop goes on, so TLC refutes this. *)
C25_AssemblyLoopTerminates ==
    (last.op = "wait_for_response" /\ last.input.end \in {"eof", "err"}) =>
        last.out.kind # "Hang"

(* The fields between the first '(' and the first ')' of the content. *)
PayloadFields(content) ==
    split(SubSeq(content, find(content, "(") + 1, find(content, ")") - 1), ",")

(* The content has a payload of six fields and the last two parse as u16. *)
SixFieldsWithPorts(content) ==
    /\ find(content, "(") > 0
    /\ find(content, "(") < find(content, ")")
    /\ Len(PayloadFields(content)) = 6
    /\ \A k \in 5..6 : parse_u(PayloadFields(content)[k], U16_MAX).ok

PortValue(content) ==
    parse_u(PayloadFields(content)[5], U16_MAX).v * 256
        + parse_u(PayloadFields(content)[6], U16_MAX).v

(* C26: on a 227 reply with six fields of which the fifth and the sixth
   parse as 16-bit unsigned integers, parse_pasv_addr returns no endpoint
   whose port differs from field5*256+field6, does not abort on overflow,
   and reports a value that does not fit a 16-bit port as an error.
   (port_data[0] * 256) + port_data[1] is computed in u16: it panics in a
   build with overflow checks and wraps in one without, so TLC refutes
   this. *)
C26_PortWithoutOverflow ==
    (PasvCall /\ SixFieldsWithPorts(last.input.content)) =>
        /\ last.out.kind # "Panic"
        /\ last.out.kind = "Ok" =>
              last.out.val.port = PortValue(last.input.content)
        /\ PortValue(last.input.content) > U16_MAX => last.out.kind = "Err"

(* C27: every reply the decoder returns has a status in 100..599 that its
   line carries as three decimal digits at positions 0-2, followed by a
   space at position 3.
   from_str takes any three bytes that parse::<u32>() accepts, a sign
   included, and checks no range, so TLC refutes this. *)
C27_StatusIsThreeDigits ==
    (last.op = "wait_for_response" /\ last.out.kind = "Ok") =>
        /\ last.out.val.status \in 100..599
        /\ Len(last.out.val.content) >= 4
        /\ IsDigits(SubSeq(last.out.val.content, 1, 3))
        /\ last.out.val.content[4] = SP
        /\ last.out.val.status = DigitsValue(SubSeq(last.out.val.content, 1, 3))

CarriesCommand(error) ==
    error.err \in {"SyntaxError", "SyntaxErrorParameters", "CommandUnimplemented"}

(* C28: when an operation returns SyntaxError, SyntaxErrorParameters or
   CommandUnimplemented, the text the error carries is the command line the
   operation wrote last (PASS in the second step of login, RNTO in the
   second step of rename, PASV inside list, fetch_file and write_file), and
   the reply the operation read last has code 500, 501, 502 or 202. *)
C28_ErrorCarriesLastCommand ==
    (last.op \in SessionOps /\ last.out.kind = "Err"
        /\ CarriesCommand(last.out.error)) =>
        /\ LastWriteAt > 0
        /\ last.log[LastWriteAt].ev = "write"
        /\ last.out.error.cmd = last.log[LastWriteAt].text
        /\ last.out.error.cmd =
              IF StepVerb \in {"PWD", "CDUP", "PASV"} THEN Command(StepVerb)
              ELSE CommandArg(StepVerb,
                        IF StepVerb = "PASS" THEN last.input[2]
                        ELSE IF StepVerb = "CWD" THEN last.input
                        ELSE <<"x">>)
        /\ StepReads # <<>>
        /\ LastReply.status \in {500, 501, 502, 202}
        /\ Wrote("PASS") => StepVerb = "PASS"
        /\ Wrote("RNTO") => StepVerb = "RNTO"
        /\ last.op \in DataOps => StepVerb = "PASV"

C28_Witness ==
    /\ last.op = "rename"
    /\ last.out = Err(SyntaxErrorParameters(CommandArg("RNTO", <<"x">>)))
    /\ ReadStatuses = <<350, 501>>

C28_WitnessPasv ==
    /\ last.op = "fetch_file"
    /\ last.out = Err(CommandUnimplemented(Command("PASV")))

(* The command lines of one call of op(input), in the order of the code. *)
OpCommands(op, input) ==
    CASE op = "login" ->
            <<CommandArg("USER", input[1]), CommandArg("PASS", input[2])>>
      [] op = "quit" -> <<Command("QUIT")>>
      [] op = "cd" -> <<CommandArg("CWD", input)>>
      [] op = "cdup" -> <<Command("CDUP")>>
      [] op = "pwd" -> <<Command("PWD")>>
      [] op = "mkdir" -> <<CommandArg("MKD", input)>>
      [] op = "rmdir" -> <<CommandArg("RMD", input)>>
      [] op = "rm" -> <<CommandArg("DELE", input)>>
      [] op = "rename" ->
            <<CommandArg("RNFR", input[1]), CommandArg("RNTO", input[2])>>
      [] op = "list" -> <<Command("PASV"), Command("LIST")>>
      [] op = "fetch_file" -> <<Command("PASV"), CommandArg("RETR", input)>>
      [] op = "write_file" -> <<Command("PASV"), CommandArg("STOR", input[1])>>

(* The command lines the last call wrote or tried to write, in order. *)
WriteAttempts ==
    [i \in 1..Len(SelectSeq(last.log, IsWrite)) |->
        SelectSeq(last.log, IsWrite)[i].text]

(* C29: within one call every command of the operation is written at most
   once, whatever replies or errors occur: the writes of the call, failed
   ones included, are the commands of the operation in order, each once,
   up to the point where the call ended (exactly one command in quit, cd,
   cdup, pwd, mkdir, rmdir and rm); and after a write failed the control
   stream is still the broken one when the call returns. *)
C29_NoRetry ==
    last.op \in SessionOps =>
        /\ WriteAttempts # <<>>
        /\ IsPrefix(WriteAttempts, OpCommands(last.op, last.input))
        /\ last.op \in {"quit", "cd", "cdup", "pwd", "mkdir", "rmdir", "rm"} =>
              Len(WriteAttempts) = 1
        /\ (\E i \in 1..Len(last.log) : last.log[i].ev = "write_failed") =>
              /\ stream.end \in {"err", "shut"}
              /\ last.log[Len(last.log)].ev = "write_failed"
              /\ last.out = Err(ConnectionError)
        /\ Cardinality({i \in 1..Len(last.log) :
                            last.log[i].ev = "read_failed"}) <= 1

C29_Witness ==
    /\ last.op = "rename"
    /\ Len(WriteAttempts) = 2
    /\ last.out.kind = "Err"

C29_WitnessWriteFailed ==
    /\ last.op = "cd"
    /\ last.log[1].ev = "write_failed"
    /\ Len(last.log) = 1

(* How many events of this kind the first n events of the last call hold. *)
DataEvents(ev, n) == Cardinality({i \in 1..n : last.log[i].ev = ev})

(* C30: a call of list, fetch_file or write_file opens at most one data
   connection; at no point of a call is more than one open; at every return,
   a failure on the data connection included, the data connection the call
   opened is closed again; and a call of another operation opens or uses
   none. *)
C30_DataConnectionLifetime ==
    last.op \in SessionOps =>
        /\ DataEvents("data_open", Len(last.log)) <= 1
        /\ \A n \in 0..Len(last.log) :
              DataEvents("data_open", n) - DataEvents("data_close", n) \in {0, 1}
        /\ DataEvents("data_open", Len(last.log))
              = DataEvents("data_close", Len(last.log))
        /\ \A o \in 1..Len(last.log) :
              last.log[o].ev = "data_open" =>
                  /\ o < Len(last.log)
                  /\ last.log[o + 1].ev = "data_close"
                  /\ last.log[o + 1].addr = last.log[o].addr
        /\ last.op \notin DataOps => DataEvents("data_open", Len(last.log)) = 0

C30_Witness ==
    /\ last.op = "write_file"
    /\ last.out = Err(ConnectionError)
    /\ DataEvents("data_open", Len(last.log)) = 1
    /\ DataEvents("data_close", Len(last.log)) = 1

(* The text is one command line: a verb, possibly a space and an argument,
   and CRLF as its last two bytes, with no CR or LF before them. *)
OneCommandLine(text) ==
    /\ Len(text) >= 2
    /\ SubSeq(text, Len(text) - 1, Len(text)) = CRLF
    /\ \A i \in 1..(Len(text) - 2) : text[i] \notin {CR, LF}
    /\ \E v \in Verbs :
          \/ text = Command(v)
          \/ StartsWith(text, VerbText(v) \o <<SP>>)

(* C31: every write an operation makes to the control stream is exactly one
   command line, whatever argument the caller gave, an argument holding CR
   or LF included.
   The argument is put into the line as it is, format!("CWD {}\r\n", path),
   so a path with a line break makes one write carry two lines, and TLC
   refutes this. *)
C31_OneCommandLinePerWrite ==
    last.op \in SessionOps =>
        \A i \in 1..Len(last.log) :
            IsWrite(last.log[i]) => OneCommandLine(last.log[i].text)

=============================================================================
